---- MODULE Spec2Model ----
(***************************************************************************)
(* Model of icons/generate_icons.py: the icon composer draw_icon and the   *)
(* export loop of the __main__ block.                                      *)
(*                                                                         *)
(* An image is modelled by what the program decides about it: its mode,    *)
(* its size, and the ordered list of filled shapes drawn on it.  The       *)
(* pixels themselves are the imaging library's business.                   *)
(***************************************************************************)
EXTENDS Integers, Sequences, FiniteSets, TLC

(* ---------------- module-level constants (lines 6-10) ------------------ *)

ICONS_DIR == "icons"

SIZES == <<16, 32, 48, 128>>

RENDER_SIZE == 512

(* ---------------- bounds of the model ---------------------------------- *)

\* number of times the script is invoked one after the other
MaxRuns == 2

\* number of direct draw_icon calls in the call-sequence specification
MaxCalls == 3

(* ---------------- arithmetic helpers ----------------------------------- *)

\* int(S * r) for a ratio r given in ten-thousandths (0.0625 = 625/10000).
\* S * r is never negative here, so Python's truncation is the floor.
IntMul(S, tenK) == (S * tenK) \div 10000

Max(a, b) == IF a >= b THEN a ELSE b

(* ---------------- colours ---------------------------------------------- *)

BLUE == <<37, 99, 235>>

LIGHT == <<248, 249, 250>>

(* ---------------- shapes ------------------------------------------------ *)

\* One filled primitive handed to the drawing context.  pts is
\* <<x0, y0, x1, y1>> for an ellipse or a rounded rectangle and the flat
\* vertex list <<x1, y1, x2, y2, x3, y3>> for a polygon.
Shape(kind, pts, radius, fill) ==
    [kind |-> kind, pts |-> pts, radius |-> radius, fill |-> fill]

\* Variant: a margin of 16/128 in place of 8/128.
marginWide(S) == IntMul(S, 1250)

\* Background circle
margin(S) == IntMul(S, 625)

DiskShape(S) ==
    Shape("ellipse", <<margin(S), margin(S), S - margin(S), S - margin(S)>>,
          0, BLUE)

\* Skewer stick
stick_w(S) == IntMul(S, 625)

stick_x(S) == (S - stick_w(S)) \div 2

stick_top(S) == IntMul(S, 1090)

stick_bot(S) == IntMul(S, 8910)

StickShape(S) ==
    Shape("rounded_rectangle",
          <<stick_x(S), stick_top(S), stick_x(S) + stick_w(S), stick_bot(S)>>,
          stick_w(S) \div 2, LIGHT)

\* Pointed tip
\* Variant: the tip starting at the stick's bottom edge.
tip_topAtStickBot(S) == IntMul(S, 8910)

tip_top(S) == IntMul(S, 8440)

tip_bot(S) == IntMul(S, 9530)

cx(S) == S \div 2

TipShape(S) ==
    Shape("polygon",
          <<cx(S) - stick_w(S) \div 2, tip_top(S),
            cx(S) + stick_w(S) \div 2, tip_top(S),
            cx(S), tip_bot(S)>>,
          0, LIGHT)

\* Tab chunks: (y_center_ratio, w_ratio, h_ratio, main_color, tab_color)
chunks ==
    << [yc |-> 2340, wr |-> 3440, hr |-> 1560,
        main_col |-> <<248, 113, 113>>, tab_col |-> <<252, 165, 165>>],
       [yc |-> 4220, wr |-> 3440, hr |-> 1560,
        main_col |-> <<251, 191, 36>>,  tab_col |-> <<253, 230, 138>>],
       [yc |-> 6090, wr |-> 3440, hr |-> 1560,
        main_col |-> <<52, 211, 153>>,  tab_col |-> <<110, 231, 183>>],
       [yc |-> 7810, wr |-> 2810, hr |-> 1250,
        main_col |-> <<167, 139, 250>>, tab_col |-> <<196, 181, 253>>] >>

chunk_w(S, c) == IntMul(S, c.wr)

chunk_h(S, c) == IntMul(S, c.hr)

chunk_y(S, c) == IntMul(S, c.yc) - chunk_h(S, c) \div 2

chunk_x(S, c) == (S - chunk_w(S, c)) \div 2

chunk_r(S) == IntMul(S, 390)

BodyShape(S, c) ==
    Shape("rounded_rectangle",
          <<chunk_x(S, c), chunk_y(S, c),
            chunk_x(S, c) + chunk_w(S, c), chunk_y(S, c) + chunk_h(S, c)>>,
          chunk_r(S), c.main_col)

tab_w(S) == IntMul(S, 1090)

tab_h(S) == IntMul(S, 470)

tab_r(S) == Max(2, IntMul(S, 160))

tab_off(S) == IntMul(S, 310)

NotchShape(S, c) ==
    Shape("rounded_rectangle",
          <<chunk_x(S, c) + tab_off(S), chunk_y(S, c),
            chunk_x(S, c) + tab_off(S) + tab_w(S), chunk_y(S, c) + tab_h(S)>>,
          tab_r(S), c.tab_col)

\* Variant: all the bodies first, then all the notches.
RECURSIVE Bodies(_, _)
Bodies(S, cs) ==
    IF cs = <<>> THEN <<>> ELSE <<BodyShape(S, Head(cs))>> \o Bodies(S, Tail(cs))

RECURSIVE Notches(_, _)
Notches(S, cs) ==
    IF cs = <<>> THEN <<>> ELSE <<NotchShape(S, Head(cs))>> \o Notches(S, Tail(cs))

DrawChunksBatched(S, cs) == Bodies(S, cs) \o Notches(S, cs)

\* One iteration of the loop over chunks: the body, then its notch.
DrawChunk(S, c) == <<BodyShape(S, c), NotchShape(S, c)>>

\* The loop over chunks, in list order.
RECURSIVE DrawChunks(_, _)
DrawChunks(S, cs) ==
    IF cs = <<>> THEN <<>>
    ELSE DrawChunk(S, Head(cs)) \o DrawChunks(S, Tail(cs))

\* Skewer knob
knob_cy(S) == IntMul(S, 1090)

knob_r_outer(S) == IntMul(S, 470)

knob_r_inner(S) == IntMul(S, 230)

KnobShape(S, r, fill) ==
    Shape("ellipse",
          <<cx(S) - r, knob_cy(S) - r, cx(S) + r, knob_cy(S) + r>>, 0, fill)

\* Everything draw_icon draws on a canvas, back to front.
DrawAll(S) ==
    <<DiskShape(S), StickShape(S), TipShape(S)>>
    \o DrawChunks(S, chunks)
    \o <<KnobShape(S, knob_r_outer(S), LIGHT), KnobShape(S, knob_r_inner(S), BLUE)>>

(* ---------------- images and the imaging library ----------------------- *)

\* No image: the value of a local that holds nothing (yet).
NoImage ==
    [mode |-> "none", size |-> <<0, 0>>, shapes |-> <<>>,
     filter |-> "none", from |-> <<0, 0>>]

VARIABLES
    globals,    \* the module-level names SIZES, RENDER_SIZE, ICONS_DIR
    pc,         \* position of the running script
    i,          \* position of the for loop in SIZES (1-based)
    icon,       \* the local `icon` of the main block: the last image returned
    canvas,     \* the local `img` of the latest draw_icon call
    fs,         \* the files of the output directory, path -> content
    out,        \* the lines printed by the current run
    err,        \* the exception that ended the current run or call
    run,        \* number of invocations of the script so far
    log,        \* history: events of the current run, in order
    results,    \* history: size -> the outcomes draw_icon has had for it
    prev        \* history: the files left by the previous run if it completed

vars == <<globals, pc, i, icon, canvas, fs, out, err, run, log, results, prev>>

\* Variant: the canvas of the previous call is used again.
ImageNewReuse(mode, size) ==
    IF canvas = NoImage
    THEN [mode |-> mode, size |-> size, shapes |-> <<>>,
          filter |-> "none", from |-> size]
    ELSE canvas

\* Image.new(mode, size, (0, 0, 0, 0)): a fresh transparent canvas.
ImageNew(mode, size) ==
    [mode |-> mode, size |-> size, shapes |-> <<>>,
     filter |-> "none", from |-> size]

\* The draw.ellipse / rounded_rectangle / polygon calls: each paints its
\* shape over what the canvas already holds.
Draw(img, shapes) == [img EXCEPT !.shapes = @ \o shapes]

\* img.resize(size, Image.LANCZOS) accepts only sizes of at least 1 x 1 and
\* raises ValueError otherwise.
ResizeOk(size) == size[1] >= 1 /\ size[2] >= 1

\* The result of img.resize(size, Image.LANCZOS): a new image of the
\* requested size in the mode of the source, resampled from all of it.
Resize(img, size) ==
    [mode |-> img.mode, size |-> size, shapes |-> img.shapes,
     filter |-> "LANCZOS", from |-> img.size]

(* ---------------- draw_icon -------------------------------------------- *)

\* Variant: composing directly on a canvas of the requested size.
ComposedAtSize(size) ==
    [mode |-> "RGBA", size |-> <<size, size>>, shapes |-> DrawAll(size),
     filter |-> "none", from |-> <<size, size>>]

\* The canvas draw_icon has composed when it reaches its return statement.
\* The size argument plays no part in it.
Composed(size) ==
    Draw(ImageNew("RGBA", <<globals.RENDER_SIZE, globals.RENDER_SIZE>>),
         DrawAll(globals.RENDER_SIZE))

\* TRUE iff draw_icon(size) returns; otherwise it raises ValueError.
Returns(size) == ResizeOk(<<size, size>>)

\* The value draw_icon(size) returns.
draw_icon(size) == Resize(Composed(size), <<size, size>>)

\* What a call of draw_icon(size) came to: an image or an exception.
Outcome(size) ==
    IF Returns(size) THEN [ok |-> TRUE, img |-> draw_icon(size)]
    ELSE [ok |-> FALSE, img |-> NoImage]

Record(size) == [results EXCEPT ![size] = @ \cup {Outcome(size)}]

(* ---------------- files and output ------------------------------------- *)

\* Variant: the size left out of the file name.
IconNameNoSize(s) == "icon.png"

\* f'icon{s}.png'
IconName(s) == "icon" \o ToString(s) \o ".png"

\* Variant: an existing file is kept and a new name is used beside it.
OutPathNoOverwrite(s) ==
    IF (globals.ICONS_DIR \o "/" \o IconName(s)) \in DOMAIN fs
    THEN globals.ICONS_DIR \o "/" \o ToString(run) \o "_" \o IconName(s)
    ELSE globals.ICONS_DIR \o "/" \o IconName(s)

\* os.path.join(ICONS_DIR, f'icon{s}.png')
OutPath(s) == globals.ICONS_DIR \o "/" \o IconName(s)

\* f'  Generated {out_path} ({s}x{s})'
Confirmation(s) ==
    "  Generated " \o OutPath(s) \o " (" \o ToString(s) \o "x" \o ToString(s) \o ")"

\* The bytes icon.save(path, 'PNG') writes: a PNG whose header declares the
\* image's size and mode, followed by its pixels.
EncodePNG(img) ==
    [format |-> "PNG", width |-> img.size[1], height |-> img.size[2],
     mode |-> img.mode, data |-> img]

\* A file that a failed save left behind: opened for writing, not completed.
Truncated ==
    [format |-> "PNG", width |-> 0, height |-> 0, mode |-> "none", data |-> NoImage]

OtherFile(fmt) ==
    [format |-> fmt, width |-> 0, height |-> 0, mode |-> "none", data |-> NoImage]

\* Creating or overwriting the file at path.
WriteFile(dir, path, content) ==
    [p \in (DOMAIN dir) \cup {path} |-> IF p = path THEN content ELSE dir[p]]

\* The script lives in the directory it writes to.
ScriptPath == ICONS_DIR \o "/generate_icons.py"

\* Directories the script may find: nothing but itself, or also icons of
\* an older version.
InitialDirs ==
    { [p \in {ScriptPath} |-> OtherFile("PY")],
      [p \in {ScriptPath, ICONS_DIR \o "/icon16.png", ICONS_DIR \o "/icon64.png"}
          |-> IF p = ScriptPath THEN OtherFile("PY") ELSE OtherFile("PNG")] }

Event(ev, size, text) == [ev |-> ev, size |-> size, text |-> text]

\* Sizes draw_icon is called with: the supported ones and non-positive ones.
CallSizes == {16, 32, 48, 128, 0, -1}

NoPrev == [p \in {} |-> OtherFile("none")]

(* ---------------- the script: lines 94-100 ---------------------------- *)

Init ==
    /\ globals = [SIZES |-> SIZES, RENDER_SIZE |-> RENDER_SIZE, ICONS_DIR |-> ICONS_DIR]
    /\ pc = "compose"
    /\ i = 1
    /\ icon = NoImage
    /\ canvas = NoImage
    /\ fs \in InitialDirs
    /\ out = <<>>
    /\ err = "none"
    /\ run = 1
    /\ log = <<>>
    /\ results = [s \in CallSizes |-> {}]
    /\ prev = NoPrev

\* The size the for loop is at.
s == globals.SIZES[i]

\* Variant: the exception is swallowed and the loop goes on.
AbortSkip(what) ==
    /\ pc' = "print"
    /\ err' = what
    /\ log' = Append(log, Event("raise", s, what))

\* Unhandled exception: the interpreter stops.
Abort(what) ==
    /\ pc' = "aborted"
    /\ err' = what
    /\ log' = Append(log, Event("raise", s, what))

\* line 96: icon = draw_icon(s)
Compose ==
    /\ pc = "compose"
    /\ canvas' = Composed(s)
    /\ results' = Record(s)
    /\ IF Returns(s)
       THEN /\ icon' = draw_icon(s)
            /\ pc' = "save"
            /\ log' = Append(log, Event("compose", s, ""))
            /\ err' = err
       ELSE /\ icon' = icon
            /\ Abort("ValueError")
    /\ UNCHANGED <<globals, i, fs, out, run, prev>>

\* line 96 when the imaging library fails (no memory for the canvas).
ComposeFail ==
    /\ pc = "compose"
    /\ Abort("MemoryError")
    /\ UNCHANGED <<globals, i, icon, canvas, fs, out, run, results, prev>>

\* lines 97-98: icon.save(out_path, 'PNG')
Save ==
    /\ pc = "save"
    /\ fs' = WriteFile(fs, OutPath(s), EncodePNG(icon))
    /\ pc' = "print"
    /\ log' = Append(log, Event("save", s, OutPath(s)))
    /\ UNCHANGED <<globals, i, icon, canvas, out, err, run, results, prev>>

\* lines 97-98 when the write fails: either the file could not be opened
\* and the directory is as before, or it was opened and left incomplete.
SaveFail ==
    /\ pc = "save"
    /\ \/ fs' = fs
       \/ fs' = WriteFile(fs, OutPath(s), Truncated)
    /\ Abort("OSError")
    /\ UNCHANGED <<globals, i, icon, canvas, out, run, results, prev>>

\* Variant: line 100 indented into the loop body.
ReportWithDone ==
    /\ pc = "print"
    /\ out' = out \o <<Confirmation(s), "Done!">>
    /\ log' = log \o <<Event("print", s, Confirmation(s)), Event("print", 0, "Done!")>>
    /\ IF i < Len(globals.SIZES)
       THEN i' = i + 1 /\ pc' = "compose"
       ELSE i' = i /\ pc' = "done"
    /\ UNCHANGED <<globals, icon, canvas, fs, err, run, results, prev>>

\* line 99, and the for statement moving on: the next size or the end.
Report ==
    /\ pc = "print"
    /\ out' = Append(out, Confirmation(s))
    /\ log' = Append(log, Event("print", s, Confirmation(s)))
    /\ IF i < Len(globals.SIZES)
       THEN i' = i + 1 /\ pc' = "compose"
       ELSE i' = i /\ pc' = "last"
    /\ UNCHANGED <<globals, icon, canvas, fs, err, run, results, prev>>

\* line 100: print('Done!')
ReportDone ==
    /\ pc = "last"
    /\ out' = Append(out, "Done!")
    /\ log' = Append(log, Event("print", 0, "Done!"))
    /\ pc' = "done"
    /\ UNCHANGED <<globals, i, icon, canvas, fs, err, run, results, prev>>

\* The script is run again: a new process over the files the last one left.
Invoke ==
    /\ pc \in {"done", "aborted"}
    /\ run < MaxRuns
    /\ run' = run + 1
    /\ prev' = IF pc = "done" THEN fs ELSE NoPrev
    /\ pc' = "compose"
    /\ i' = 1
    /\ icon' = NoImage
    /\ canvas' = NoImage
    /\ out' = <<>>
    /\ err' = "none"
    /\ log' = <<>>
    /\ UNCHANGED <<globals, fs, results>>

Next ==
    \/ Compose
    \/ ComposeFail
    \/ Save
    \/ SaveFail
    \/ Report
    \/ ReportDone
    \/ Invoke

Spec == Init /\ [][Next]_vars

(* ---------------- draw_icon called directly ---------------------------- *)

InitCalls ==
    /\ Init
    /\ fs = [p \in {ScriptPath} |-> OtherFile("PY")]

\* A caller invokes draw_icon(size) and catches what it raises.
Call(size) ==
    /\ Len(log) < MaxCalls
    /\ canvas' = Composed(size)
    /\ results' = Record(size)
    /\ log' = Append(log, Event("call", size, ""))
    /\ IF Returns(size)
       THEN icon' = draw_icon(size) /\ err' = "none"
       ELSE icon' = NoImage /\ err' = "ValueError"
    /\ UNCHANGED <<globals, pc, i, fs, out, run, prev>>

NextCalls == \E size \in CallSizes : Call(size)

SpecCalls == InitCalls /\ [][NextCalls]_vars

(* ---------------- helpers of the properties ---------------------------- *)

\* The supported sizes and the paths of their files, written out.
Supported == {16, 32, 48, 128}

ExpectedPath ==
    [n \in Supported |->
        CASE n = 16  -> "icons/icon16.png"
          [] n = 32  -> "icons/icon32.png"
          [] n = 48  -> "icons/icon48.png"
          [] n = 128 -> "icons/icon128.png"]

ExpectedLine ==
    [n \in Supported |->
        CASE n = 16  -> "  Generated icons/icon16.png (16x16)"
          [] n = 32  -> "  Generated icons/icon32.png (32x32)"
          [] n = 48  -> "  Generated icons/icon48.png (48x48)"
          [] n = 128 -> "  Generated icons/icon128.png (128x128)"]

InOrder == <<16, 32, 48, 128>>

\* The events of the current run that are of kind ev.
Events(ev) == SelectSeq(log, LAMBDA e : e.ev = ev)

\* The file at path p is a finished PNG of an n x n RGBA image that was
\* resampled to n x n from the full canvas.
IsIconOf(p, n) ==
    /\ p \in DOMAIN fs
    /\ fs[p].format = "PNG"
    /\ fs[p].width = n /\ fs[p].height = n
    /\ fs[p].mode = "RGBA"
    /\ fs[p].data.size = <<n, n>>
    /\ fs[p].data.filter = "LANCZOS"
    /\ Len(fs[p].data.shapes) = 13

\* The files of the directory that hold a composed icon.
ComposedFiles == {p \in DOMAIN fs : fs[p].data # NoImage}

(* ---------------- C1 ---------------------------------------------------- *)

\* C1: a complete run over the default sizes has written exactly the four
\* files icon16.png, icon32.png, icon48.png and icon128.png, no other file
\* of the directory holds a composed icon, and the file of each size s
\* holds the s x s image composed for s.
C1_ExportWritesFourFiles ==
    pc = "done" =>
        /\ Len(Events("save")) = 4
        /\ {e.text : e \in {Events("save")[k] : k \in 1..Len(Events("save"))}}
              = {ExpectedPath[n] : n \in Supported}
        /\ ComposedFiles = {ExpectedPath[n] : n \in Supported}
        /\ \A n \in Supported : IsIconOf(ExpectedPath[n], n)

\* A first run has completed in a directory that held icons of an older
\* version, one of them under the name of an output file.
C1_Witness ==
    /\ pc = "done"
    /\ run = 1
    /\ "icons/icon64.png" \in DOMAIN fs
    /\ IsIconOf("icons/icon16.png", 16)

(* ---------------- C2 ---------------------------------------------------- *)

Last(q) == q[Len(q)]

\* C2: when draw_icon is called with a supported size n it returns an RGBA
\* image of exactly n x n pixels, resampled from a canvas that is
\* 512 x 512 whatever n is.
C2_ReturnsRequestedSize ==
    (log # <<>> /\ Last(log).ev = "call" /\ Last(log).size \in Supported) =>
        /\ err = "none"
        /\ icon.mode = "RGBA"
        /\ icon.size = <<Last(log).size, Last(log).size>>
        /\ icon.from = <<512, 512>>
        /\ canvas.mode = "RGBA"
        /\ canvas.size = <<512, 512>>

\* draw_icon(16) has returned after a call of draw_icon(128).
C2_Witness ==
    /\ Len(log) = 2
    /\ log[1].size = 128
    /\ log[2].size = 16
    /\ icon.size = <<16, 16>>
    /\ canvas.size = <<512, 512>>

(* ---------------- C3 ---------------------------------------------------- *)

\* C3: whatever calls came before, all calls of draw_icon with one size
\* have had the same outcome, the canvas of a call never holds more than
\* the thirteen shapes of one composition, and the module-level names
\* SIZES, RENDER_SIZE and ICONS_DIR keep their values.
C3_DeterministicAndPure ==
    /\ \A n \in CallSizes : Cardinality(results[n]) <= 1
    /\ canvas # NoImage => Len(canvas.shapes) = 13
    /\ globals = [SIZES |-> <<16, 32, 48, 128>>, RENDER_SIZE |-> 512,
                  ICONS_DIR |-> "icons"]

\* draw_icon(16) was called, then draw_icon(128), then draw_icon(16) again.
C3_Witness ==
    /\ Len(log) = 3
    /\ log[1].size = 16
    /\ log[2].size = 128
    /\ log[3].size = 16
    /\ Cardinality(results[16]) = 1
    /\ Cardinality(results[128]) = 1

(* ---------------- C4 ---------------------------------------------------- *)

\* C4: a complete run that follows a complete run leaves the directory
\* exactly as that run left it: the same files with the same contents.
C4_ExportIdempotent ==
    (pc = "done" /\ prev # NoPrev) => fs = prev

\* A second run has completed over the files of a complete first run.
C4_Witness ==
    /\ pc = "done"
    /\ run = 2
    /\ prev # NoPrev
    /\ \A n \in Supported : IsIconOf(ExpectedPath[n], n)

(* ---------------- C5 ---------------------------------------------------- *)

Finished == Len(Events("print"))

\* C6: once composing or writing has failed for the size at position k,
\* the run is over: the files written and the lines printed are those of
\* the k - 1 sizes before it, each of these files still holds its icon,
\* 'Done!' is not printed, the failure is the last event of the run and
\* the only one, and nothing is written or printed in that run any more.
C6_FailureAbortsRun ==
    /\ [](err # "none" =>
            /\ pc = "aborted"
            /\ Finished = i - 1
            /\ Len(Events("save")) = i - 1
            /\ Len(Events("raise")) = 1
            /\ Last(log).ev = "raise"
            /\ Last(log).size = InOrder[i]
            /\ out = [k \in 1..(i - 1) |-> ExpectedLine[InOrder[k]]]
            /\ \A k \in 1..(i - 1) :
                  /\ Events("save")[k].text = ExpectedPath[InOrder[k]]
                  /\ IsIconOf(ExpectedPath[InOrder[k]], InOrder[k])
            /\ \A k \in 1..Len(out) : out[k] # "Done!")
    /\ [][(err # "none" /\ run' = run) => UNCHANGED <<fs, out, log>>]_vars

\* Writing icon48.png has failed after icon16.png and icon32.png were
\* written and confirmed.
C6_Witness ==
    /\ pc = "aborted"
    /\ err = "OSError"
    /\ i = 3
    /\ Len(out) = 2
    /\ IsIconOf("icons/icon32.png", 32)

(* ---------------- C7 ---------------------------------------------------- *)

\* The events of a run without failure, in order.
ExpectedLog ==
    << Event("compose", 16, ""),  Event("save", 16, ExpectedPath[16]),
       Event("print", 16, ExpectedLine[16]),
       Event("compose", 32, ""),  Event("save", 32, ExpectedPath[32]),
       Event("print", 32, ExpectedLine[32]),
       Event("compose", 48, ""),  Event("save", 48, ExpectedPath[48]),
       Event("print", 48, ExpectedLine[48]),
       Event("compose", 128, ""), Event("save", 128, ExpectedPath[128]),
       Event("print", 128, ExpectedLine[128]),
       Event("print", 0, "Done!") >>

\* C7: the events of a run are, one after the other, compose - save -
\* confirm for 16, then for 32, 48 and 128, then 'Done!'; a failure can
\* only be the last event.  The lines printed are the confirmations in
\* that order, and a run that completed has printed the four of them and
\* then 'Done!' once.
C7_SequentialOrder ==
    /\ Len(log) <= Len(ExpectedLog)
    /\ \A k \in 1..Len(log) :
          \/ log[k] = ExpectedLog[k]
          \/ k = Len(log) /\ log[k].ev = "raise"
    /\ Len(out) = Len(Events("print"))
    /\ \A k \in 1..Len(out) : out[k] = Events("print")[k].text
    /\ pc = "done" =>
          out = << ExpectedLine[16], ExpectedLine[32], ExpectedLine[48],
                   ExpectedLine[128], "Done!" >>

\* A run has printed 'Done!'.
C7_Witness ==
    /\ pc = "done"
    /\ Len(log) = 13
    /\ Last(out) = "Done!"

(* ---------------- geometry of a composed canvas ------------------------- *)

\* Rectangle a = <<x0, y0, x1, y1>> lies within rectangle b.
Within(a, b) == a[1] >= b[1] /\ a[2] >= b[2] /\ a[3] <= b[3] /\ a[4] <= b[4]

\* Rectangles a and b have a point in common.
Overlap(a, b) == a[1] <= b[3] /\ b[1] <= a[3] /\ a[2] <= b[4] /\ b[2] <= a[4]

\* Every coordinate of the shape lies in [lo, hi].
CoordsIn(sh, lo, hi) == \A k \in 1..Len(sh.pts) : sh.pts[k] >= lo /\ sh.pts[k] <= hi

\* Positions in the drawing order.
DiskAt == 1

StickAt == 2

TipAt == 3

BodyAt(k) == 2 + 2 * k

NotchAt(k) == 3 + 2 * k

KnobOuterAt == 12

(* ---------------- C8 ---------------------------------------------------- *)

\* C8: on every composed canvas, for each of the four chunks the notch is
\* the shape drawn right after the chunk's body, its rectangle lies within
\* the body's rectangle, and no body drawn later touches it.
C8_NotchLayering ==
    canvas # NoImage =>
        /\ Len(canvas.shapes) = 13
        /\ \A k \in 1..4 :
              LET body  == canvas.shapes[BodyAt(k)]
                  notch == canvas.shapes[NotchAt(k)]
              IN  /\ body.kind = "rounded_rectangle"
                  /\ body.fill = chunks[k].main_col
                  /\ notch.kind = "rounded_rectangle"
                  /\ notch.fill = chunks[k].tab_col
                  /\ Within(notch.pts, body.pts)
                  /\ \A j \in (k + 1)..4 :
                        ~Overlap(canvas.shapes[BodyAt(j)].pts, notch.pts)

\* A canvas was composed; the first chunk's notch is the rectangle
\* (183, 80)-(238, 104) inside the body (168, 80)-(344, 159).
C8_Witness ==
    /\ canvas # NoImage
    /\ pc = "save"
    /\ canvas.shapes[BodyAt(1)].pts = <<168, 80, 344, 159>>
    /\ canvas.shapes[NotchAt(1)].pts = <<183, 80, 238, 104>>

(* ---------------- C9 ---------------------------------------------------- *)

\* C9 as claimed: the tip's two upper vertices are the stick's bottom-left
\* and bottom-right corners, and the apex lies on the stick's centre line
\* strictly below them.
C9_TipAtStickBottomCorners ==
    canvas # NoImage =>
        LET stick == canvas.shapes[StickAt].pts
            tip   == canvas.shapes[TipAt].pts
        IN  /\ tip[1] = stick[1] /\ tip[2] = stick[4]
            /\ tip[3] = stick[3] /\ tip[4] = stick[4]
            /\ 2 * tip[5] = stick[1] + stick[3]
            /\ tip[6] > tip[2]

\* C9 amended: the tip's two upper vertices have the x of the stick's left
\* and right edges and one common y, which lies strictly between the
\* stick's top and bottom edges (so they are on the stick's sides, above
\* its bottom corners); the apex lies on the stick's centre line, strictly
\* below the upper vertices and strictly below the stick's bottom edge.
C9_TipOnStickSides ==
    canvas # NoImage =>
        LET stick == canvas.shapes[StickAt].pts
            tip   == canvas.shapes[TipAt].pts
        IN  /\ canvas.shapes[TipAt].kind = "polygon"
            /\ tip[1] = stick[1] /\ tip[3] = stick[3]
            /\ tip[2] = tip[4]
            /\ tip[2] > stick[2] /\ tip[2] < stick[4]
            /\ 2 * tip[5] = stick[1] + stick[3]
            /\ tip[6] > tip[2]
            /\ tip[6] > stick[4]

\* A canvas was composed: the stick is (240, 55)-(272, 456) and the tip
\* is (240, 432), (272, 432), (256, 487).
C9_Witness ==
    /\ canvas # NoImage
    /\ canvas.shapes[StickAt].pts = <<240, 55, 272, 456>>
    /\ canvas.shapes[TipAt].pts = <<240, 432, 272, 432, 256, 487>>

(* ---------------- C10 --------------------------------------------------- *)

\* C10 as claimed: the disk is centred with radius (0.5 - 0.0625) x 512 and
\* every shape drawn after it has all its coordinates within the disk's
\* bounding box.
C10_AllShapesInsideDisk ==
    canvas # NoImage =>
        LET disk == canvas.shapes[DiskAt].pts
        IN  /\ disk = <<32, 32, 480, 480>>
            /\ \A k \in 2..Len(canvas.shapes) :
                  CoordsIn(canvas.shapes[k], disk[1], disk[3])

\* C10 amended: the disk is centred with radius (0.5 - 0.0625) x 512; the
\* stick, every chunk body and notch and the inner knob circle have all
\* their coordinates within the disk's bounding box [32, 480]; the tip's
\* apex lies below the box and the outer knob circle's top above it, both
\* within the canvas [0, 512].
C10_ShapesInsideDiskButTipAndKnob ==
    canvas # NoImage =>
        LET disk == canvas.shapes[DiskAt].pts
            tip  == canvas.shapes[TipAt].pts
            knob == canvas.shapes[KnobOuterAt].pts
        IN  /\ canvas.size = <<512, 512>>
            /\ canvas.shapes[DiskAt].kind = "ellipse"
            /\ disk = <<32, 32, 480, 480>>
            /\ disk[3] - disk[1] = 2 * 224 /\ disk[4] - disk[2] = 2 * 224
            /\ disk[1] + disk[3] = 512 /\ disk[2] + disk[4] = 512
            /\ \A k \in (2..Len(canvas.shapes)) \ {TipAt, KnobOuterAt} :
                  CoordsIn(canvas.shapes[k], disk[1], disk[3])
            /\ \A k \in 1..5 : tip[k] >= disk[1] /\ tip[k] <= disk[3]
            /\ tip[6] > disk[4] /\ tip[6] <= 512
            /\ knob[2] < disk[2] /\ knob[2] >= 0
            /\ knob[1] >= disk[1] /\ knob[3] <= disk[3] /\ knob[4] <= disk[4]

\* A canvas was composed: the tip's apex is at y = 487 and the outer
\* knob circle's top at y = 31, the disk spanning 32..480.
C10_Witness ==
    /\ canvas # NoImage
    /\ canvas.shapes[DiskAt].pts = <<32, 32, 480, 480>>
    /\ canvas.shapes[TipAt].pts[6] = 487
    /\ canvas.shapes[KnobOuterAt].pts = <<232, 31, 280, 79>>

====
